---- MODULE Spec2Model ----
(***************************************************************************)
(* Model of src/renderer/macros.rs: MacroCollection, the index of macros   *)
(* by template and namespace.  The recursive walk of                       *)
(* add_macros_from_template is modelled with an explicit call stack, one   *)
(* action per loop iteration or statement that changes the collection.     *)
(***************************************************************************)
EXTENDS Integers, Sequences, FiniteSets, TLC

(* ---------------------------- bounds ----------------------------------- *)

\* Deepest call stack of add_macros_from_template the model follows.
MaxDepth == 6
\* Most import and parent declarations in the whole registry.
MaxEdges == 2
\* Most imports one template declares.
MaxImports == 2
\* Most parents one template declares.
MaxParents == 2

\* Template names; the root template is named Root.
Names == {"A", "B", "C"}
Root == "A"
\* Namespaces a template can import under ("self" is not reserved by the code).
Aliases == {"f", "g", "self"}
\* Macro names a lookup can ask for, and the sets of them a template declares.
MacroNames == {"m", "n"}
DeclaredMacros == {{}, {"m"}}

(* ------------------------- data model ---------------------------------- *)

\* An empty HashMap.
EmptyMap == [x \in {} |-> {}]

\* A MacroDefinition, opaque: identified by the template declaring it.
MacroDefinition(t, m) == [declared_in |-> t, name |-> m]

\* MacroDefinitionMap of template t declaring the macros ms.
MacroDefinitionMap(t, ms) == [m \in ms |-> MacroDefinition(t, m)]

\* Template: what the walk reads of a parsed template, here the templates
\* named t that declare at most e imports and parents in all.
Template(t, e) ==
    UNION { UNION { { [name |-> t, macros |-> MacroDefinitionMap(t, ms),
                       imported_macro_files |-> im, parents |-> pa] :
                        ms \in DeclaredMacros,
                        im \in [1..ki -> Names \X Aliases],
                        pa \in [1..kp -> Names] } :
                    kp \in {k \in 0..MaxParents : ki + k <= e} } :
            ki \in {k \in 0..MaxImports : k <= e} }

Edges(tpl) == Len(tpl.imported_macro_files) + Len(tpl.parents)

\* insert that drops every other key of the map.
insert_Replacing(map, k, v) == [x \in {k} |-> v]

\* insert that keeps the value a key already has.
insert_KeepFirst(map, k, v) ==
    [x \in DOMAIN map \cup {k} |-> IF x \in DOMAIN map THEN map[x] ELSE v]

\* HashMap::insert: the new value replaces an old one under the same key.
insert(map, k, v) == [x \in DOMAIN map \cup {k} |-> IF x = k THEN v ELSE map[x]]

\* Tera::get_template: the template registered under name, or an error.
get_template(t, name) ==
    IF name \in DOMAIN t
    THEN [ok |-> TRUE, tpl |-> t[name]]
    ELSE [ok |-> FALSE, err |-> [kind |-> "UnresolvedTemplate", name |-> name]]

VARIABLES
    tera,           \* the registry: template name -> Template
    macros,         \* MacroCollection.macros: template -> namespace -> (origin, macro map)
    stack,          \* call stack of add_macros_from_template, innermost last
    walk_result,    \* what the outermost add_macros_from_template returned
    status,         \* where from_original_template is
    lookup_result,  \* the last lookup_macro call and what it returned
    visited,        \* templates add_macros_from_template was called on
    built,          \* per template, how often its namespace map was inserted
    first           \* the registry and outcome of an earlier construction, if any

vars == <<tera, macros, stack, walk_result, status, lookup_result, visited, built,
         first>>

NoResult == [kind |-> "none"]

(* --------------------- add_macros_from_template ------------------------ *)

\* NewNamespaceMap without the is_empty test of line 53.
NewNamespaceMap_AlwaysSelf(tpl) ==
    insert(EmptyMap, "self", <<tpl.name, tpl.macros>>)

\* The innermost call, its template, and whether the walk is under way.
Top == stack[Len(stack)]
TopTemplate == tera[Top.template]
Running == status = "running" /\ walk_result = NoResult /\ stack # <<>>

\* Lines 51-55: the fresh namespace map, with "self" when the template has macros.
NewNamespaceMap(tpl) ==
    IF tpl.macros # EmptyMap
    THEN insert(EmptyMap, "self", <<tpl.name, tpl.macros>>)
    ELSE EmptyMap

\* The frame of a call that got past the contains_key check.
Frame(tpl) ==
    [template |-> tpl.name, pc |-> "imports", i |-> 1,
     macro_namespace_map |-> NewNamespaceMap(tpl)]

\* AlreadyCollected that also counts a template whose call is still running.
AlreadyCollected_OrVisiting(m, name) ==
    \/ name \in DOMAIN m
    \/ \E k \in 1..Len(stack) : stack[k].template = name

\* Line 47: the call returns at once for a template that is already a key.
AlreadyCollected(m, name) == name \in DOMAIN m


\* The caller's frame replaced by f, then the call on tpl: an early return
\* leaves the caller on top, otherwise the callee's frame is pushed.
Call(f, tpl) ==
    LET caller == [stack EXCEPT ![Len(stack)] = f]
    IN  /\ visited' = visited \cup {tpl.name}
        /\ IF AlreadyCollected(macros, tpl.name)
           THEN stack' = caller
           ELSE stack' = Append(caller, Frame(tpl))

\* The ? operator: the error is returned through every frame to the first caller.
Propagate(err) ==
    /\ stack' = <<>>
    /\ walk_result' = [kind |-> "Err", err |-> err]
    /\ UNCHANGED visited

\* The call would need a frame beyond the deepest stack the model follows.
NeedsFrame(name) ==
    /\ name \in DOMAIN tera
    /\ ~AlreadyCollected(macros, name)
    /\ Len(stack) >= MaxDepth

\* ImportStep that records the namespace but does not walk into the imported
\* template.
ImportStep_NoRecursion ==
    /\ Running
    /\ Top.pc = "imports"
    /\ Top.i <= Len(TopTemplate.imported_macro_files)
    /\ LET filename  == TopTemplate.imported_macro_files[Top.i][1]
           namespace == TopTemplate.imported_macro_files[Top.i][2]
           r == get_template(tera, filename)
       IN  IF r.ok
           THEN /\ stack' = [stack EXCEPT ![Len(stack)] =
                               [Top EXCEPT
                                  !.macro_namespace_map =
                                      insert(@, namespace, <<filename, r.tpl.macros>>),
                                  !.i = @ + 1]]
                /\ UNCHANGED <<walk_result, visited>>
           ELSE Propagate(r.err)
    /\ UNCHANGED <<first, tera, macros, status, lookup_result, built>>

\* ImportStep over imports kept in no fixed order: an iteration takes the
\* import from the front or from the back.
ImportStep_Unordered ==
    /\ Running
    /\ Top.pc = "imports"
    /\ Top.i <= Len(TopTemplate.imported_macro_files)
    /\ \E at \in {Top.i, Len(TopTemplate.imported_macro_files) + 1 - Top.i} :
        LET filename  == TopTemplate.imported_macro_files[at][1]
            namespace == TopTemplate.imported_macro_files[at][2]
            r == get_template(tera, filename)
        IN  /\ ~NeedsFrame(filename)
            /\ IF r.ok
               THEN /\ Call([Top EXCEPT
                               !.macro_namespace_map =
                                   insert(@, namespace, <<filename, r.tpl.macros>>),
                               !.i = @ + 1],
                            r.tpl)
                    /\ UNCHANGED walk_result
               ELSE Propagate(r.err)
    /\ UNCHANGED <<first, tera, macros, status, lookup_result, built>>

\* Lines 57-61: one iteration of the loop over imported_macro_files.
ImportStep ==
    /\ Running
    /\ Top.pc = "imports"
    /\ Top.i <= Len(TopTemplate.imported_macro_files)
    /\ LET filename  == TopTemplate.imported_macro_files[Top.i][1]
           namespace == TopTemplate.imported_macro_files[Top.i][2]
           r == get_template(tera, filename)
       IN  /\ ~NeedsFrame(filename)
           /\ IF r.ok
              THEN /\ Call([Top EXCEPT
                              !.macro_namespace_map =
                                  insert(@, namespace, <<filename, r.tpl.macros>>),
                              !.i = @ + 1],
                           r.tpl)
                   /\ UNCHANGED walk_result
              ELSE Propagate(r.err)
    /\ UNCHANGED <<first, tera, macros, status, lookup_result, built>>

\* InsertStep that goes on to the parents without inserting the map first.
InsertStep_NotBeforeParents ==
    /\ Running
    /\ Top.pc = "imports"
    /\ Top.i > Len(TopTemplate.imported_macro_files)
    /\ stack' = [stack EXCEPT ![Len(stack)] = [Top EXCEPT !.pc = "parents", !.i = 1]]
    /\ UNCHANGED <<first, tera, macros, walk_result, status, lookup_result, visited, built>>

\* InsertStep taken before the loop over the imports has finished.
InsertStep_Early ==
    /\ Running
    /\ Top.pc = "imports"
    /\ macros' = insert(macros, Top.template, Top.macro_namespace_map)
    /\ built' = [built EXCEPT ![Top.template] = @ + 1]
    /\ stack' = [stack EXCEPT ![Len(stack)] = [Top EXCEPT !.pc = "parents", !.i = 1]]
    /\ UNCHANGED <<first, tera, walk_result, status, lookup_result, visited>>

\* Line 63: the namespace map is inserted under the template's name.
InsertStep ==
    /\ Running
    /\ Top.pc = "imports"
    /\ Top.i > Len(TopTemplate.imported_macro_files)
    /\ macros' = insert(macros, Top.template, Top.macro_namespace_map)
    /\ built' = [built EXCEPT ![Top.template] = @ + 1]
    /\ stack' = [stack EXCEPT ![Len(stack)] = [Top EXCEPT !.pc = "parents", !.i = 1]]
    /\ UNCHANGED <<first, tera, walk_result, status, lookup_result, visited>>

\* ParentStep that resolves the parent but does not walk into it.
ParentStep_NoRecursion ==
    /\ Running
    /\ Top.pc = "parents"
    /\ Top.i <= Len(TopTemplate.parents)
    /\ LET parent == TopTemplate.parents[Top.i]
           r == get_template(tera, parent)
       IN  IF r.ok
           THEN /\ stack' = [stack EXCEPT ![Len(stack)] = [Top EXCEPT !.i = @ + 1]]
                /\ UNCHANGED <<walk_result, visited>>
           ELSE Propagate(r.err)
    /\ UNCHANGED <<first, tera, macros, status, lookup_result, built>>

\* ParentStep that leaves the loop after the first parent.
ParentStep_FirstOnly ==
    /\ Running
    /\ Top.pc = "parents"
    /\ Top.i <= Len(TopTemplate.parents)
    /\ LET parent == TopTemplate.parents[Top.i]
           r == get_template(tera, parent)
       IN  /\ ~NeedsFrame(parent)
           /\ IF r.ok
              THEN /\ Call([Top EXCEPT !.i = Len(TopTemplate.parents) + 1], r.tpl)
                   /\ UNCHANGED walk_result
              ELSE Propagate(r.err)
    /\ UNCHANGED <<first, tera, macros, status, lookup_result, built>>

\* ParentStep that also copies the parent's import namespaces into the child's
\* namespace map.
ParentStep_Merging ==
    /\ Running
    /\ Top.pc = "parents"
    /\ Top.i <= Len(TopTemplate.parents)
    /\ LET parent == TopTemplate.parents[Top.i]
           r == get_template(tera, parent)
       IN  /\ ~NeedsFrame(parent)
           /\ IF r.ok
              THEN /\ Call([Top EXCEPT !.i = @ + 1], r.tpl)
                   /\ macros' =
                        [macros EXCEPT ![Top.template] =
                            [ns \in DOMAIN @ \cup
                                    {r.tpl.imported_macro_files[k][2] :
                                        k \in 1..Len(r.tpl.imported_macro_files)} |->
                                IF ns \in DOMAIN @
                                THEN @[ns]
                                ELSE <<parent, r.tpl.macros>>]]
                   /\ UNCHANGED walk_result
              ELSE Propagate(r.err) /\ UNCHANGED macros
    /\ UNCHANGED <<first, tera, status, lookup_result, built>>

\* Lines 65-69: one iteration of the loop over parents.
ParentStep ==
    /\ Running
    /\ Top.pc = "parents"
    /\ Top.i <= Len(TopTemplate.parents)
    /\ LET parent == TopTemplate.parents[Top.i]
           r == get_template(tera, parent)
       IN  /\ ~NeedsFrame(parent)
           /\ IF r.ok
              THEN /\ Call([Top EXCEPT !.i = @ + 1], r.tpl)
                   /\ UNCHANGED walk_result
              ELSE Propagate(r.err)
    /\ UNCHANGED <<first, tera, macros, status, lookup_result, built>>

\* Line 71: Ok(()) to the caller; the outermost call hands it to
\* from_original_template.
ReturnStep ==
    /\ Running
    /\ Top.pc = "parents"
    /\ Top.i > Len(TopTemplate.parents)
    /\ stack' = SubSeq(stack, 1, Len(stack) - 1)
    /\ walk_result' = IF Len(stack) = 1 THEN [kind |-> "Ok"] ELSE walk_result
    /\ UNCHANGED <<first, tera, macros, status, lookup_result, visited, built>>

\* The recursion needs more stack than there is: the process is killed.
StackOverflow ==
    /\ Running
    /\ \/ /\ Top.pc = "imports"
          /\ Top.i <= Len(TopTemplate.imported_macro_files)
          /\ NeedsFrame(TopTemplate.imported_macro_files[Top.i][1])
       \/ /\ Top.pc = "parents"
          /\ Top.i <= Len(TopTemplate.parents)
          /\ NeedsFrame(TopTemplate.parents[Top.i])
    /\ status' = "overflow"
    /\ UNCHANGED <<first, tera, macros, stack, walk_result, lookup_result, visited, built>>

(* ----------------------- from_original_template ------------------------ *)

\* Lines 26-30: expect() on the walk's result, then the collection is returned.
Expect(r) == IF r.kind = "Ok" THEN "returned" ELSE "panicked"

FromOriginalTemplateEnd ==
    /\ status = "running"
    /\ walk_result # NoResult
    /\ status' = Expect(walk_result)
    /\ UNCHANGED <<first, tera, macros, stack, walk_result, lookup_result, visited, built>>

(* ----------------------------- lookup_macro ---------------------------- *)

\* GetNamespace that falls back on the template's "self" namespace.
GetNamespace_SelfFallback(m, template_name, macro_namespace) ==
    IF template_name \in DOMAIN m
    THEN IF macro_namespace \in DOMAIN m[template_name]
         THEN [some |-> TRUE, n |-> m[template_name][macro_namespace]]
         ELSE IF "self" \in DOMAIN m[template_name]
              THEN [some |-> TRUE, n |-> m[template_name]["self"]]
              ELSE [some |-> FALSE]
    ELSE [some |-> FALSE]

\* Lines 80-83: macros.get(template_name).and_then(|m| m.get(macro_namespace)).
GetNamespace(m, template_name, macro_namespace) ==
    IF template_name \in DOMAIN m
    THEN IF macro_namespace \in DOMAIN m[template_name]
         THEN [some |-> TRUE, n |-> m[template_name][macro_namespace]]
         ELSE [some |-> FALSE]
    ELSE [some |-> FALSE]

\* lookup_macro that returns the looked-up template instead of the origin.
lookup_macro_ReturnsCaller(m, template_name, macro_namespace, macro_name) ==
    LET namespace ==
            IF template_name \in DOMAIN m
               /\ macro_namespace \in DOMAIN m[template_name]
            THEN [some |-> TRUE, n |-> m[template_name][macro_namespace]]
            ELSE [some |-> FALSE]
    IN  IF namespace.some
        THEN IF macro_name \in DOMAIN namespace.n[2]
             THEN [kind |-> "Ok", origin |-> template_name,
                   definition |-> namespace.n[2][macro_name]]
             ELSE [kind |-> "MacroNotFound", namespace |-> macro_namespace,
                   macro |-> macro_name, template |-> template_name]
        ELSE [kind |-> "NamespaceNotFound", namespace |-> macro_namespace,
              template |-> template_name]

\* lookup_macro whose MacroNotFound names the origin instead of the looked-up
\* template.
lookup_macro_NamesOrigin(m, template_name, macro_namespace, macro_name) ==
    LET namespace ==
            IF template_name \in DOMAIN m
               /\ macro_namespace \in DOMAIN m[template_name]
            THEN [some |-> TRUE, n |-> m[template_name][macro_namespace]]
            ELSE [some |-> FALSE]
    IN  IF namespace.some
        THEN IF macro_name \in DOMAIN namespace.n[2]
             THEN [kind |-> "Ok", origin |-> namespace.n[1],
                   definition |-> namespace.n[2][macro_name]]
             ELSE [kind |-> "MacroNotFound", namespace |-> macro_namespace,
                   macro |-> macro_name, template |-> namespace.n[1]]
        ELSE [kind |-> "NamespaceNotFound", namespace |-> macro_namespace,
              template |-> template_name]

\* Lines 74-104.
lookup_macro(m, template_name, macro_namespace, macro_name) ==
    LET namespace == GetNamespace(m, template_name, macro_namespace)
    IN  IF namespace.some
        THEN LET macro_template == namespace.n[1]
                 macro_definition_map == namespace.n[2]
             IN  IF macro_name \in DOMAIN macro_definition_map
                 THEN [kind |-> "Ok", origin |-> macro_template,
                       definition |-> macro_definition_map[macro_name]]
                 ELSE [kind |-> "MacroNotFound", namespace |-> macro_namespace,
                       macro |-> macro_name, template |-> template_name]
        ELSE [kind |-> "NamespaceNotFound", namespace |-> macro_namespace,
              template |-> template_name]

\* A render-time query on the finished collection.
Lookup ==
    /\ status = "returned"
    /\ \E t \in Names, ns \in Aliases, mn \in MacroNames :
          lookup_result' = [template_name |-> t, macro_namespace |-> ns,
                            macro_name |-> mn,
                            result |-> lookup_macro(macros, t, ns, mn)]
    /\ UNCHANGED <<first, tera, macros, stack, walk_result, status, visited, built>>

(* --------------------------- specification ----------------------------- *)

\* Templates reachable from the names in S by import and parent declarations.
Targets(t, n) ==
    IF n \in DOMAIN t
    THEN {t[n].imported_macro_files[k][1] : k \in 1..Len(t[n].imported_macro_files)}
         \cup {t[n].parents[k] : k \in 1..Len(t[n].parents)}
    ELSE {}

RECURSIVE Reach(_, _)
Reach(t, S) ==
    LET next == S \cup UNION {Targets(t, n) : n \in S}
    IN  IF next = S THEN S ELSE Reach(t, next)

\* A name that is not registered: get_template fails on it.
Unregistered == [name |-> "none"]

\* The registry holding the given templates.
Registry(ts) ==
    [n \in {x.name : x \in {y \in ts : y # Unregistered}} |->
        CHOOSE x \in ts : x.name = n]

\* Root is registered, the templates declare at most MaxEdges imports and
\* parents in all, and a template the walk from Root never reads declares none.
Init ==
    /\ \E a \in Template(Root, MaxEdges) :
       \E b \in Template("B", MaxEdges - Edges(a)) \cup {Unregistered} :
       \E c \in Template("C", MaxEdges - Edges(a)
                                - (IF b = Unregistered THEN 0 ELSE Edges(b)))
                    \cup {Unregistered} :
          /\ tera = Registry({a, b, c})
          /\ \A n \in DOMAIN tera \ Reach(tera, {Root}) : Edges(tera[n]) = 0
    /\ macros = EmptyMap
    /\ stack = <<Frame(tera[Root])>>
    /\ walk_result = NoResult
    /\ status = "running"
    /\ lookup_result = NoResult
    /\ visited = {Root}
    /\ built = [n \in Names |-> 0]
    /\ first = NoResult

Next ==
    \/ ImportStep
    \/ InsertStep
    \/ ParentStep
    \/ ReturnStep
    \/ StackOverflow
    \/ FromOriginalTemplateEnd
    \/ Lookup

Spec == Init /\ [][Next]_vars

\* The steps of a construction.
Walk ==
    \/ ImportStep
    \/ InsertStep
    \/ ParentStep
    \/ ReturnStep
    \/ StackOverflow
    \/ FromOriginalTemplateEnd

\* The construction is one synchronous call: it goes on while it can.
SpecFair == Spec /\ WF_vars(Walk)

(* ------------------------- two constructions -------------------------- *)

\* The orders the elements of the sequence s can be declared in.
Reorderings(s) ==
    { [i \in 1..Len(s) |-> s[p[i]]] :
        p \in {q \in [1..Len(s) -> 1..Len(s)] :
                 \A i, j \in 1..Len(s) : q[i] = q[j] => i = j} }

\* The template with its imports and its parents declared in another order.
ReorderedTemplates(tpl) ==
    { [tpl EXCEPT !.imported_macro_files = im, !.parents = pa] :
        im \in Reorderings(tpl.imported_macro_files),
        pa \in Reorderings(tpl.parents) }

\* The registry with the declarations of its templates reordered.
ReorderedRegistries(t) ==
    { r \in [DOMAIN t -> UNION {ReorderedTemplates(t[n]) : n \in DOMAIN t}] :
        \A n \in DOMAIN t : r[n] \in ReorderedTemplates(t[n]) }

\* The construction is over; Finished when the process is still there to
\* construct again.
Ended == status \in {"returned", "panicked", "overflow"}
Finished == status \in {"returned", "panicked"}

\* Lines 23-27 again: from_original_template called anew on the root of the
\* registry t, with a fresh collection; the first construction is remembered.
Construct(t) ==
    /\ first = NoResult
    /\ Finished
    /\ first' = [tera |-> tera, macros |-> macros, walk_result |-> walk_result,
                 status |-> status]
    /\ tera' = t
    /\ macros' = EmptyMap
    /\ stack' = <<Frame(t[Root])>>
    /\ walk_result' = NoResult
    /\ status' = "running"
    /\ visited' = {Root}
    /\ built' = [n \in Names |-> 0]
    /\ UNCHANGED lookup_result

\* A second, independent construction from the same root and registry.
ConstructAgain == Construct(tera)

\* A second construction from the same templates declared in another order.
ConstructReordered ==
    /\ first = NoResult
    /\ Finished
    /\ \E t \in ReorderedRegistries(tera) \ {tera} : Construct(t)

NextTwice ==
    \/ Walk
    \/ ConstructAgain
    \/ ConstructReordered

SpecTwice == Init /\ [][NextTwice]_vars

(* --------------------------- wider registries -------------------------- *)

\* Templates as in Template, with one more declaration and a single alias.
WideTemplate(t, e) ==
    UNION { UNION { { [name |-> t, macros |-> MacroDefinitionMap(t, ms),
                       imported_macro_files |-> im, parents |-> pa] :
                        ms \in DeclaredMacros,
                        im \in [1..ki -> Names \X {"f"}],
                        pa \in [1..kp -> Names] } :
                    kp \in {k \in 0..MaxParents : ki + k <= e} } :
            ki \in {k \in 0..MaxImports : k <= e} }

\* As Init, over registries of up to MaxEdges + 1 declarations.
InitWide ==
    /\ \E a \in WideTemplate(Root, MaxEdges + 1) :
       \E b \in WideTemplate("B", MaxEdges + 1 - Edges(a)) \cup {Unregistered} :
       \E c \in WideTemplate("C", MaxEdges + 1 - Edges(a)
                                    - (IF b = Unregistered THEN 0 ELSE Edges(b)))
                    \cup {Unregistered} :
          /\ tera = Registry({a, b, c})
          /\ \A n \in DOMAIN tera \ Reach(tera, {Root}) : Edges(tera[n]) = 0
    /\ macros = EmptyMap
    /\ stack = <<Frame(tera[Root])>>
    /\ walk_result = NoResult
    /\ status = "running"
    /\ lookup_result = NoResult
    /\ visited = {Root}
    /\ built = [n \in Names |-> 0]
    /\ first = NoResult

SpecWide == InitWide /\ [][Walk]_vars

(* ------------------------------ claims --------------------------------- *)

Keys == DOMAIN macros
Reachable == Reach(tera, {Root})
ImportsOf(T) == tera[T].imported_macro_files
ImportIndices(T) == 1..Len(ImportsOf(T))
AliasesOf(T) == {ImportsOf(T)[k][2] : k \in ImportIndices(T)}
HasOwnMacros(T) == tera[T].macros # EmptyMap
Entries(map) == {<<k, map[k]>> : k \in DOMAIN map}
Looked == lookup_result # NoResult

\* C1: when construction from Root has completed successfully, the keys of the
\* collection are exactly the templates reachable from Root by import and
\* parent declarations.
C1_KeysAreReachableSet ==
    status = "returned" => Keys = Reachable

\* A successful construction that collected a template other than Root and
\* left a registered template out.
C1_Witness ==
    /\ status = "returned"
    /\ Keys # {Root}
    /\ DOMAIN tera # Keys
    /\ \E n \in Keys : tera[n].parents # <<>>
    /\ \E n \in Keys : ImportsOf(n) # <<>>

\* The entries the declarations of T call for: "self" for its own macros and
\* one entry per import.
DeclaredEntries(T) ==
    (IF HasOwnMacros(T) THEN {<<"self", <<T, tera[T].macros>>>>} ELSE {})
    \cup { <<ImportsOf(T)[k][2],
             IF ImportsOf(T)[k][1] \in DOMAIN tera
             THEN <<ImportsOf(T)[k][1], tera[ImportsOf(T)[k][1]].macros>>
             ELSE <<ImportsOf(T)[k][1], "unresolved">> >> :
           k \in ImportIndices(T) }

DistinctAliases(T) ==
    /\ "self" \notin AliasesOf(T)
    /\ \A j, k \in ImportIndices(T) :
          ImportsOf(T)[j][2] = ImportsOf(T)[k][2] => j = k

\* C2: a key T whose import aliases are pairwise distinct and not "self" is
\* mapped to exactly "self" -> (T, T's macros) iff T declares macros, plus
\* alias -> (file, file's macros) per import; a Root declaring nothing yields
\* the single key Root mapped to the empty map.
C2_NamespaceMapIsDeclared ==
    /\ \A T \in Keys :
          DistinctAliases(T) => Entries(macros[T]) = DeclaredEntries(T)
    /\ (/\ status = "returned"
        /\ ImportsOf(Root) = <<>>
        /\ tera[Root].parents = <<>>
        /\ ~HasOwnMacros(Root))
       => macros = [n \in {Root} |-> EmptyMap]

\* A key with own macros and two imports under distinct aliases, and another
\* key without own macros.
C2_Witness ==
    /\ \E T \in Keys :
          /\ DistinctAliases(T)
          /\ HasOwnMacros(T)
          /\ Len(ImportsOf(T)) = 2
    /\ \E T \in Keys : ~HasOwnMacros(T) /\ DistinctAliases(T)

\* The import of T that the namespace a resolves to: the last one under a.
LastUnder(T, k) ==
    \A j \in ImportIndices(T) : j > k => ImportsOf(T)[j][2] # ImportsOf(T)[k][2]

\* What a lookup through import k of the looked-up template must return.
LookupReturnsImport(k) ==
    LET T == lookup_result.template_name
        F == ImportsOf(T)[k][1]
    IN  /\ lookup_result.result =
              [kind |-> "Ok", origin |-> F,
               definition |-> tera[F].macros[lookup_result.macro_name]]
        /\ F \in Keys

\* The lookup went through the alias of import k of a collected template, for
\* a macro the imported file declares.
LookupThroughImport(k) ==
    LET T == lookup_result.template_name
    IN  /\ k \in ImportIndices(T)
        /\ ImportsOf(T)[k][2] = lookup_result.macro_namespace
        /\ ImportsOf(T)[k][1] \in DOMAIN tera
        /\ lookup_result.macro_name \in DOMAIN tera[ImportsOf(T)[k][1]].macros

\* C3 as stated: a lookup through any import (F, a) of a collected template,
\* for a macro of F, returns (F, F's definition), and F is a key.
C3_Original ==
    (Looked /\ lookup_result.template_name \in Keys) =>
        \A k \in 1..MaxImports : LookupThroughImport(k) => LookupReturnsImport(k)

\* C3, amended: a lookup through the import (F, a) of a collected template T
\* that is the last import of T under a, for a macro of F, returns (F, F's
\* definition), and F is a key.
C3_LookupReturnsLastImport ==
    (Looked /\ lookup_result.template_name \in Keys) =>
        \A k \in 1..MaxImports :
            (LookupThroughImport(k) /\ LastUnder(lookup_result.template_name, k))
                => LookupReturnsImport(k)

\* A successful lookup through an import of another file.
C3_Witness ==
    /\ Looked
    /\ lookup_result.template_name \in Keys
    /\ \E k \in 1..MaxImports :
          /\ LookupThroughImport(k)
          /\ LastUnder(lookup_result.template_name, k)
          /\ ImportsOf(lookup_result.template_name)[k][1]
                # lookup_result.template_name
    /\ lookup_result.result.kind = "Ok"

\* C4: a lookup fails with NamespaceNotFound, carrying the requested namespace
\* and template, exactly when the template is not a key or its map has no
\* entry for the namespace; the macro name plays no part.
C4_NamespaceNotFound ==
    Looked =>
        LET t  == lookup_result.template_name
            ns == lookup_result.macro_namespace
        IN  /\ lookup_result.result.kind = "NamespaceNotFound"
                <=> (t \notin Keys \/ ns \notin DOMAIN macros[t])
            /\ lookup_result.result.kind = "NamespaceNotFound"
                => /\ lookup_result.result =
                        [kind |-> "NamespaceNotFound", namespace |-> ns,
                         template |-> t]
                   /\ \A mn \in MacroNames :
                        lookup_macro(macros, t, ns, mn) = lookup_result.result

\* Both cases: a lookup on a template that is no key, and one on a key for a
\* namespace it does not have.
C4_Witness ==
    /\ Looked
    /\ lookup_result.result.kind = "NamespaceNotFound"
    /\ lookup_result.template_name \in Keys
    /\ macros[lookup_result.template_name] # EmptyMap
    /\ Keys # DOMAIN tera

\* C5: a lookup fails with MacroNotFound, carrying the requested namespace,
\* macro and template, exactly when the template has an entry for the
\* namespace and that entry's macro map lacks the macro; every lookup ends in
\* one of Ok, NamespaceNotFound, MacroNotFound.
C5_MacroNotFound ==
    Looked =>
        LET t  == lookup_result.template_name
            ns == lookup_result.macro_namespace
            mn == lookup_result.macro_name
            r  == lookup_result.result
        IN  /\ r.kind = "MacroNotFound"
                <=> /\ t \in Keys
                    /\ ns \in DOMAIN macros[t]
                    /\ mn \notin DOMAIN macros[t][ns][2]
            /\ r.kind = "MacroNotFound"
                => r = [kind |-> "MacroNotFound", namespace |-> ns,
                        macro |-> mn, template |-> t]
            /\ r.kind \in {"Ok", "NamespaceNotFound", "MacroNotFound"}

\* A lookup through an import alias for a macro the imported file lacks, while
\* that file declares another macro.
C5_Witness ==
    /\ Looked
    /\ lookup_result.result.kind = "MacroNotFound"
    /\ lookup_result.macro_namespace # "self"
    /\ macros[lookup_result.template_name][lookup_result.macro_namespace][1]
          # lookup_result.template_name
    /\ macros[lookup_result.template_name][lookup_result.macro_namespace][2]
          # EmptyMap

\* C6 as stated: a construction whose walk met an unregistered import or
\* parent returns the error to its caller and never crashes.
C6_ErrorIsReturned ==
    walk_result.kind = "Err" => status # "panicked"

\* C7: in every state of a construction, the aborted one included, every key
\* has its complete namespace map: "self" if the template declares macros and
\* an entry for every import alias it declares, each entry naming the template
\* itself or one of its imports.
C7_KeysHaveCompleteMaps ==
    \A T \in Keys :
        /\ HasOwnMacros(T) => "self" \in DOMAIN macros[T]
        /\ AliasesOf(T) \subseteq DOMAIN macros[T]
        /\ DOMAIN macros[T] \subseteq AliasesOf(T) \cup {"self"}
        /\ \A ns \in DOMAIN macros[T] :
              \/ ns = "self" /\ macros[T][ns] = <<T, tera[T].macros>>
              \/ \E k \in ImportIndices(T) :
                    /\ ImportsOf(T)[k][2] = ns
                    /\ ImportsOf(T)[k][1] \in DOMAIN tera
                    /\ macros[T][ns] =
                          <<ImportsOf(T)[k][1], tera[ImportsOf(T)[k][1]].macros>>

\* An aborted construction that left behind a key with an import and own
\* macros.
C7_Witness ==
    /\ walk_result.kind = "Err"
    /\ \E T \in Keys : ImportsOf(T) # <<>> /\ HasOwnMacros(T)

\* C8 as stated: during one construction the namespace map of a template is
\* built and inserted at most once.
C8_BuiltAtMostOnce ==
    \A n \in Names : built[n] <= 1

\* The child Root has the parent P, which imports under the namespace a.
ParentImportsUnder(P, a) ==
    /\ \E k \in 1..Len(tera[Root].parents) : tera[Root].parents[k] = P
    /\ P \in DOMAIN tera
    /\ a \in AliasesOf(P)

\* What C9 says of the collection, whatever is looked up: the parent and the
\* files it imports are keys, and the child's map holds only its own entries.
ParentIsNotMerged(P, a) ==
    /\ P \in Keys
    /\ a \in DOMAIN macros[P]
    /\ \A k \in ImportIndices(P) : ImportsOf(P)[k][1] \in Keys
    /\ DOMAIN macros[Root]
          = AliasesOf(Root) \cup (IF HasOwnMacros(Root) THEN {"self"} ELSE {})

LookedInChild(a) ==
    /\ Looked
    /\ lookup_result.template_name = Root
    /\ lookup_result.macro_namespace = a

\* C9 as stated: a lookup in the child under a namespace of the parent yields
\* NamespaceNotFound unless the child imports something under that namespace.
C9_Original ==
    status = "returned" =>
        \A P \in Names, a \in Aliases :
            ParentImportsUnder(P, a) =>
                /\ ParentIsNotMerged(P, a)
                /\ (LookedInChild(a) /\ a \notin AliasesOf(Root))
                      => lookup_result.result.kind = "NamespaceNotFound"

\* C9, amended: the parent and its imports are keys, the child's map holds
\* only its own "self" entry and import aliases, and a lookup in the child
\* under a namespace of the parent yields NamespaceNotFound unless the child
\* imports something under it or it is "self" and the child declares macros.
C9_InheritanceDoesNotMerge ==
    status = "returned" =>
        \A P \in Names, a \in Aliases :
            ParentImportsUnder(P, a) =>
                /\ ParentIsNotMerged(P, a)
                /\ (/\ LookedInChild(a)
                    /\ a \notin AliasesOf(Root)
                    /\ ~(a = "self" /\ HasOwnMacros(Root)))
                      => lookup_result.result.kind = "NamespaceNotFound"

\* A child without imports looked up under the namespace of its parent's
\* import of a third template.
C9_Witness ==
    /\ status = "returned"
    /\ ImportsOf(Root) = <<>>
    /\ \E P \in Names \ {Root}, a \in Aliases :
          /\ ParentImportsUnder(P, a)
          /\ \E k \in ImportIndices(P) : ImportsOf(P)[k][1] \notin {P, Root}
          /\ LookedInChild(a)
          /\ lookup_result.result.kind = "NamespaceNotFound"

MutualImport(a, b) ==
    /\ a # b
    /\ \E k \in ImportIndices(a) : ImportsOf(a)[k][1] = b
    /\ \E k \in ImportIndices(b) : ImportsOf(b)[k][1] = a

AllResolvable ==
    \A n \in DOMAIN tera : Targets(tera, n) \subseteq DOMAIN tera

\* C10: with every name resolvable and two templates importing each other,
\* a construction that has reached one of them never completes: neither is
\* ever a key, and a call on one of them stays in its import loop on the
\* stack.
C10_MutualImportNeverCompletes ==
    \A a, b \in DOMAIN tera :
        (MutualImport(a, b) /\ AllResolvable /\ {a, b} \cap visited # {}) =>
            /\ status \in {"running", "overflow"}
            /\ walk_result = NoResult
            /\ a \notin Keys
            /\ b \notin Keys
            /\ \E k \in 1..Len(stack) :
                  stack[k].template \in {a, b} /\ stack[k].pc = "imports"

\* The stack is exhausted by calls that alternate between two templates
\* importing each other.
C10_Witness ==
    /\ status = "overflow"
    /\ AllResolvable
    /\ Len(stack) = MaxDepth
    /\ \E a, b \in DOMAIN tera :
          /\ MutualImport(a, b)
          /\ \A k \in 1..Len(stack) :
                stack[k].template = (IF k % 2 = 1 THEN a ELSE b)

\* C11: construction only adds to the collection: a key is never removed and
\* the namespace map under it never changes, and neither construction nor
\* lookup changes the registry or any template's name, macros, imports or
\* parents.
C11_AdditiveOnly ==
    [][/\ \A T \in DOMAIN macros :
             T \in DOMAIN macros' /\ macros'[T] = macros[T]
       /\ tera' = tera]_vars

\* A lookup on a finished collection into which a key was inserted a second
\* time.
C11_Witness ==
    /\ status = "returned"
    /\ Looked
    /\ \E n \in Keys : built[n] = 2
    /\ \E n \in Keys : macros[n] # EmptyMap

\* C16: in every state of a construction, the aborted one included, the
\* origin of every namespace entry of every key is itself a key, so the origin
\* a successful lookup returns can be looked up in turn.
C16_OriginsAreKeys ==
    /\ \A T \in Keys : \A ns \in DOMAIN macros[T] : macros[T][ns][1] \in Keys
    /\ (Looked /\ lookup_result.result.kind = "Ok")
          => lookup_result.result.origin \in Keys

\* An aborted construction that left behind a key with an entry whose origin
\* is another template.
C16_Witness ==
    /\ walk_result.kind = "Err"
    /\ \E T \in Keys : \E ns \in DOMAIN macros[T] : macros[T][ns][1] # T

\* The last import of T under the namespace a.
LastImportUnder(T, a) ==
    ImportsOf(T)[CHOOSE k \in ImportIndices(T) :
                    ImportsOf(T)[k][2] = a /\ LastUnder(T, k)]

\* C17: namespace collisions in one template are settled by the last write,
\* own macros first and then the imports in declaration order: an alias holds
\* the (file, macros) of the last import under it, "self" included, so the own
\* macros of a template importing under "self" cannot be looked up; the only
\* error of a construction is an unresolved template.
C17_LastWriteWins ==
    /\ \A T \in Keys : \A a \in AliasesOf(T) :
          /\ a \in DOMAIN macros[T]
          /\ LastImportUnder(T, a)[1] \in DOMAIN tera
          /\ macros[T][a] = <<LastImportUnder(T, a)[1],
                              tera[LastImportUnder(T, a)[1]].macros>>
    /\ (/\ Looked
        /\ lookup_result.template_name \in Keys
        /\ lookup_result.macro_namespace = "self"
        /\ "self" \in AliasesOf(lookup_result.template_name)
        /\ lookup_result.result.kind = "Ok")
          => /\ lookup_result.result.origin
                   = LastImportUnder(lookup_result.template_name, "self")[1]
             /\ lookup_result.result.definition.declared_in
                   # lookup_result.template_name
    /\ walk_result.kind = "Err"
          => /\ walk_result.err.kind = "UnresolvedTemplate"
             /\ walk_result.err.name \notin DOMAIN tera

\* Root declares macros and imports two files under "self"; a lookup under
\* "self" is answered from the second file.
C17_Witness ==
    /\ status = "returned"
    /\ HasOwnMacros(Root)
    /\ Len(ImportsOf(Root)) = 2
    /\ ImportsOf(Root)[1][2] = "self"
    /\ ImportsOf(Root)[2][2] = "self"
    /\ ImportsOf(Root)[1][1] # ImportsOf(Root)[2][1]
    /\ Looked
    /\ lookup_result.template_name = Root
    /\ lookup_result.macro_namespace = "self"
    /\ lookup_result.result.kind = "Ok"
    /\ lookup_result.result.origin = ImportsOf(Root)[2][1]

\* The registered files n imports.
ImportTargets(t, n) ==
    IF n \in DOMAIN t
    THEN {t[n].imported_macro_files[k][1] : k \in 1..Len(t[n].imported_macro_files)}
    ELSE {}

\* Templates reachable from the names in S by import declarations alone.
RECURSIVE ImportReach(_, _)
ImportReach(t, S) ==
    LET next == S \cup UNION {ImportTargets(t, n) : n \in S}
    IN  IF next = S THEN S ELSE ImportReach(t, next)

\* A cycle of import declarations that Root reaches.
ImportCycleReachable ==
    \E n \in Reachable : n \in ImportReach(tera, ImportTargets(tera, n))

\* Template n lies on a cycle of declarations.
OnCycle(n) == n \in Reach(tera, Targets(tera, n))

\* C13: when Root reaches no cycle made of import declarations only, the
\* construction ends, with the collection or with an error, also when
\* templates lie on cycles that go through a parent declaration.
C13_TerminatesWithoutImportCycle ==
    ~ImportCycleReachable => <>(status \in {"returned", "panicked"})

\* A finished construction over a cycle that goes through a parent.
C13_Witness ==
    /\ status = "returned"
    /\ ~ImportCycleReachable
    /\ \E n \in Keys : OnCycle(n)

\* C12: two independent constructions from the same root against the same
\* registry end in the same outcome, and with the same collection: the same
\* keys, namespaces, origins and macros.
C12_Deterministic ==
    (first # NoResult /\ first.tera = tera /\ Ended) =>
        /\ status = first.status
        /\ walk_result = first.walk_result
        /\ macros = first.macros

\* Two successful constructions of a collection of two keys or more.
C12_Witness ==
    /\ first # NoResult
    /\ first.tera = tera
    /\ status = "returned"
    /\ Cardinality(Keys) >= 2
    /\ \E T \in Keys : macros[T] # EmptyMap

\* No template declares two imports under one alias.
NoRepeatedAlias(t) ==
    \A n \in DOMAIN t :
        \A j, k \in 1..Len(t[n].imported_macro_files) :
            t[n].imported_macro_files[j][2] = t[n].imported_macro_files[k][2]
                => j = k

\* A call that has reached its parents has walked all its imports and
\* inserted its map.
ImportsBeforeParents ==
    \A k \in 1..Len(stack) :
        stack[k].pc = "parents" =>
            /\ stack[k].template \in Keys
            /\ ImportTargets(tera, stack[k].template) \subseteq visited

\* A successful construction was followed by one over the reordered registry,
\* which has ended.
ReorderedEnded ==
    /\ first # NoResult
    /\ first.tera # tera
    /\ first.status = "returned"
    /\ Ended

\* C15 as stated: imports are processed before parents, and reordering the
\* imports or the parents of any template yields the same final collection.
C15_Original ==
    /\ ImportsBeforeParents
    /\ ReorderedEnded => (status = "returned" /\ macros = first.macros)

\* C15, amended: imports are processed before parents, and when no template
\* declares two imports under one alias, reordering the imports or the
\* parents of any template yields the same final collection.
C15_OrderIrrelevantForDistinctAliases ==
    /\ ImportsBeforeParents
    /\ (ReorderedEnded /\ NoRepeatedAlias(tera))
          => (status = "returned" /\ macros = first.macros)

\* A successful construction repeated with the two imports of a template, under
\* distinct aliases, declared the other way round.
C15_Witness ==
    /\ ReorderedEnded
    /\ NoRepeatedAlias(tera)
    /\ status = "returned"
    /\ \E n \in Keys :
          /\ Len(ImportsOf(n)) = 2
          /\ ImportsOf(n) # first.tera[n].imported_macro_files

\* The step on which a registry lookup fails.
LookupFails == walk_result.kind # "Err" /\ walk_result'.kind = "Err"

\* The collection and the record of calls stay as they are.
WalkStopped == macros' = macros /\ visited' = visited /\ built' = built

\* The top call failed on a parent: its template is a key with its complete
\* namespace map.
ParentFailedIsKey ==
    Top.pc = "parents" =>
        /\ Top.template \in Keys
        /\ AliasesOf(Top.template) \subseteq DOMAIN macros[Top.template]
        /\ HasOwnMacros(Top.template) => "self" \in DOMAIN macros[Top.template]

\* C14 as stated: a failed registry lookup stops the walk at once, leaving the
\* collection as it was; no template still in its import phase on the call
\* stack is a key, the one whose import failed included, and a template whose
\* parent failed is a key with its complete namespace map.
C14_Original ==
    /\ [][LookupFails =>
            /\ WalkStopped
            /\ ParentFailedIsKey
            /\ \A k \in 1..Len(stack) :
                  stack[k].pc = "imports" => stack[k].template \notin Keys]_vars
    /\ [][walk_result.kind = "Err" => WalkStopped]_vars

\* C14 without the templates in their import phase further down the stack.
C14_TopOnly ==
    /\ [][LookupFails =>
            /\ WalkStopped
            /\ ParentFailedIsKey
            /\ Top.pc = "imports" => Top.template \notin Keys]_vars
    /\ [][walk_result.kind = "Err" => WalkStopped]_vars

====
